---- MODULE Spec2Model ----
(***************************************************************************)
(* Model of the extension manager of lthoerner/techtriage:                 *)
(*   src/src/extensions/mod.rs        ExtensionManager (staging, the       *)
(*                                    load_extensions pass)                *)
(*   src/src/extensions/conflicts.rs  LoadConflict, ExtensionDiff          *)
(* An extension is modelled by its metadata (id, display name, version);   *)
(* its manufacturers, classifications and devices are never compared.      *)
(***************************************************************************)
EXTENDS Naturals, Sequences, FiniteSets

(* ------------------------------------------------------------------ *)
(* Input domains                                                      *)
(* ------------------------------------------------------------------ *)

\* Number of extension files ExtensionManager::new stages.
MaxFiles == 3

\* Number of extensions the database holds when the pass starts.
MaxLoaded == 2

Ids == {"a", "b", "c"}

Names == {"Foo", "Bar"}

\* semver versions <<major, minor, patch>>
Versions == {<<1, 1, 0>>, <<2, 0, 0>>}

Metadata == [id : Ids, display_name : Names, version : Versions]

\* An InventoryExtension, reduced to the part the manager looks at.
InventoryExtension == Metadata

UniqueIds(s) == \A i, j \in 1..Len(s) : i /= j => s[i].id /= s[j].id

\* What Database::list_extensions can return: the store keeps ids unique.
LoadedSnapshots ==
    {s \in UNION {[1..n -> Metadata] : n \in 0..MaxLoaded} : UniqueIds(s)}

(* ------------------------------------------------------------------ *)
(* semver::Version ordering                                           *)
(* ------------------------------------------------------------------ *)

VersionLess(v, w) ==
    \/ v[1] < w[1]
    \/ v[1] = w[1] /\ v[2] < w[2]
    \/ v[1] = w[1] /\ v[2] = w[2] /\ v[3] < w[3]

(* ------------------------------------------------------------------ *)
(* conflicts.rs: ExtensionDiff                                        *)
(* ------------------------------------------------------------------ *)

\* Variant: extensions are matched on their display names.
ExtensionDiffNew_ByName(extension_1, extension_2) ==
    IF extension_1.display_name /= extension_2.display_name
    THEN [some |-> FALSE, same_display_name |-> FALSE, higher_version |-> "None"]
    ELSE [some |-> TRUE,
          same_display_name |-> TRUE,
          higher_version |->
              IF VersionLess(extension_2.version, extension_1.version)
              THEN "SomeTrue"
              ELSE IF VersionLess(extension_1.version, extension_2.version)
                   THEN "SomeFalse"
                   ELSE "None"]

\* Option<ExtensionDiff>; higher_version is an Option<bool>.
ExtensionDiffNew(extension_1, extension_2) ==
    IF extension_1.id /= extension_2.id
    THEN [some |-> FALSE, same_display_name |-> FALSE, higher_version |-> "None"]
    ELSE [some |-> TRUE,
          same_display_name |-> extension_1.display_name = extension_2.display_name,
          higher_version |->
              IF VersionLess(extension_2.version, extension_1.version)
              THEN "SomeTrue"
              ELSE IF VersionLess(extension_1.version, extension_2.version)
                   THEN "SomeFalse"
                   ELSE "None"]

is_update(diff) == diff.same_display_name /\ diff.higher_version = "SomeTrue"

\* Variant: a lower loaded version counts whatever the display names.
is_downgrade_AnyName(diff) == diff.higher_version = "SomeFalse"

is_downgrade(diff) == diff.same_display_name /\ diff.higher_version = "SomeFalse"

is_name_change(diff) == ~diff.same_display_name

(* ------------------------------------------------------------------ *)
(* conflicts.rs: LoadConflict                                         *)
(* ------------------------------------------------------------------ *)

NoNameChange == [some |-> FALSE, loaded_name |-> "", staged_name |-> ""]

NameChange(loaded_name, staged_name) ==
    [some |-> TRUE, loaded_name |-> loaded_name, staged_name |-> staged_name]

NoVersionChange ==
    [some |-> FALSE, loaded_version |-> <<0, 0, 0>>, staged_version |-> <<0, 0, 0>>]

VersionChange(loaded_version, staged_version) ==
    [some |-> TRUE, loaded_version |-> loaded_version, staged_version |-> staged_version]

\* Vec::remove(i)
RemoveAt(s, i) == [k \in 1..(Len(s) - 1) |-> IF k < i THEN s[k] ELSE s[k + 1]]

\* The index at which the scan of LoadConflict::new stops: the first loaded
\* entry whose diff against the staged extension is defined; 0 if none is.
MatchIndex(staged_extension, loaded_extensions) ==
    LET hits == {i \in 1..Len(loaded_extensions) :
                    ExtensionDiffNew(loaded_extensions[i], staged_extension).some}
    IN IF hits = {} THEN 0 ELSE CHOOSE i \in hits : \A k \in hits : i <= k

\* The conflict literal built at the match.
BuildConflict(loaded_extension_metadata, staged_extension_metadata, diff) ==
    [id |-> loaded_extension_metadata.id,
     name_change |->
         IF is_name_change(diff)
         THEN NameChange(loaded_extension_metadata.display_name,
                         staged_extension_metadata.display_name)
         ELSE NoNameChange,
     version_change |->
         IF is_update(diff) \/ is_downgrade(diff)
         THEN VersionChange(loaded_extension_metadata.version,
                            staged_extension_metadata.version)
         ELSE NoVersionChange]

\* Variant: the head of the vector is removed instead of the match.
RemovedIndex_First(i) == 1

\* The entry Vec::remove takes out once the match is at index i.
RemovedIndex(i) == i

\* LoadConflict::new: Option<LoadConflict> together with the loaded vector
\* as the call leaves it.  matched and diff are the locals of the scan.
LoadConflictNew(staged_extension, loaded_extensions) ==
    LET i == MatchIndex(staged_extension, loaded_extensions)
    IN IF i = 0
       THEN [some |-> FALSE,
             matched |-> staged_extension,
             diff |-> ExtensionDiffNew(staged_extension, staged_extension),
             conflict |-> [id |-> staged_extension.id,
                           name_change |-> NoNameChange,
                           version_change |-> NoVersionChange],
             loaded_extensions |-> loaded_extensions]
       ELSE LET diff == ExtensionDiffNew(loaded_extensions[i], staged_extension)
            IN [some |-> TRUE,
                matched |-> loaded_extensions[i],
                diff |-> diff,
                conflict |-> BuildConflict(loaded_extensions[i], staged_extension, diff),
                loaded_extensions |-> RemoveAt(loaded_extensions, RemovedIndex(i))]

should_reload(conflict) ==
    IF conflict.version_change.some
    THEN VersionLess(conflict.version_change.loaded_version,
                     conflict.version_change.staged_version)
    ELSE FALSE

(* ------------------------------------------------------------------ *)
(* mod.rs: ExtensionManager                                           *)
(* ------------------------------------------------------------------ *)

already_contains(staged, extension) ==
    \E i \in 1..Len(staged) : extension.id = staged[i].id

\* Variant: a duplicate replaces the extension staged under its id.
StagePush_Replace(staged, extension) ==
    IF ~already_contains(staged, extension)
    THEN Append(staged, extension)
    ELSE [k \in 1..Len(staged) |->
             IF staged[k].id = extension.id THEN extension ELSE staged[k]]

\* stage_extension, after the file has been read and parsed.
StagePush(staged, extension) ==
    IF ~already_contains(staged, extension)
    THEN Append(staged, extension)
    ELSE staged

\* The condition guarding db.reload_extension in load_extensions.
ReloadCondition(override, conflict) == override \/ should_reload(conflict)

\* Variant: the Result of the storage call is dropped.
AfterAwait_Ignore(ok) == "loading"

\* The `?` after an awaited storage call: an Err leaves load_extensions.
AfterAwait(ok) == IF ok THEN "loading" ELSE "failed"

\* Variant: the conflict is put in front of the report.
PushConflict_Front(report, conflict) == <<conflict>> \o report

\* conflicts.push(conflict)
PushConflict(report, conflict) == Append(report, conflict)

(* ------------------------------------------------------------------ *)
(* The database, as load_extensions relies on it                      *)
(* ------------------------------------------------------------------ *)

\* Database::load_extension: commits a new extension.
DbLoad(store, extension) == Append(store, extension)

\* Database::reload_extension: replaces the committed extension of that id.
DbReload(store, extension) ==
    [k \in 1..Len(store) |-> IF store[k].id = extension.id THEN extension ELSE store[k]]

(* ------------------------------------------------------------------ *)
(* State                                                              *)
(* ------------------------------------------------------------------ *)

VARIABLES
    pc,                 \* "staging", "listing", "loading", "done", "failed", "aborted"
    files,              \* history: the extensions parsed by stage_extension so far
    staged_extensions,  \* ExtensionManager.staged_extensions
    load_override,      \* argument of load_extensions
    db,                 \* extension metadata committed in the database
    snapshot,           \* history: what list_extensions returned
    loaded_extensions,  \* the working vector of load_extensions
    conflicts,          \* the report being built
    next,               \* position of the into_iter loop in staged_extensions
    decisions,          \* history: one record per staged extension processed
    result              \* "none", "Ok" (the report is conflicts) or "Err"

vars == <<pc, files, staged_extensions, load_override, db, snapshot,
          loaded_extensions, conflicts, next, decisions, result>>

Init ==
    /\ pc = "staging"
    /\ files = <<>>
    /\ staged_extensions = <<>>
    /\ load_override = FALSE
    /\ db = <<>>
    /\ snapshot = <<>>
    /\ loaded_extensions = <<>>
    /\ conflicts = <<>>
    /\ next = 1
    /\ decisions = <<>>
    /\ result = "none"

\* ExtensionManager::new, one extension file: stage_extension succeeds.
StageExtension ==
    /\ pc = "staging"
    /\ Len(files) < MaxFiles
    /\ \E extension \in InventoryExtension :
          /\ files' = Append(files, extension)
          /\ staged_extensions' = StagePush(staged_extensions, extension)
    /\ UNCHANGED <<pc, load_override, db, snapshot, loaded_extensions,
                   conflicts, next, decisions, result>>

\* stage_extension fails on reading or parsing; new() returns the error and
\* no manager exists.
StageExtensionError ==
    /\ pc = "staging"
    /\ Len(files) < MaxFiles
    /\ pc' = "aborted"
    /\ result' = "Err"
    /\ UNCHANGED <<files, staged_extensions, load_override, db, snapshot,
                   loaded_extensions, conflicts, next, decisions>>

\* ExtensionManager::new has returned the manager and load_extensions is
\* called on it (it takes the manager by value) with its override flag.
CallLoadExtensions ==
    /\ pc = "staging"
    /\ \E override \in BOOLEAN : load_override' = override
    /\ pc' = "listing"
    /\ files' = <<>>
    /\ UNCHANGED <<staged_extensions, db, snapshot, loaded_extensions,
                   conflicts, next, decisions, result>>

\* db.list_extensions().await? succeeds: the loaded metadata is fetched once.
\* The contents of the store are whatever it holds at that moment.
ListExtensions ==
    /\ pc = "listing"
    /\ \E loaded \in LoadedSnapshots :
          /\ db' = loaded
          /\ snapshot' = loaded
          /\ loaded_extensions' = loaded
    /\ pc' = "loading"
    /\ conflicts' = <<>>
    /\ next' = 1
    /\ UNCHANGED <<files, staged_extensions, load_override, decisions, result>>

\* db.list_extensions().await? fails.
ListExtensionsError ==
    /\ pc = "listing"
    /\ pc' = "failed"
    /\ result' = "Err"
    /\ UNCHANGED <<files, staged_extensions, load_override, db, snapshot,
                   loaded_extensions, conflicts, next, decisions>>

Decision(staged_extension, found, action, ok) ==
    [staged |-> staged_extension,
     some |-> found.some,
     loaded |-> found.matched,
     diff |-> found.diff,
     conflict |-> found.conflict,
     action |-> action,
     ok |-> ok]

\* One iteration without a conflict: db.load_extension(..).await?
LoadExtension ==
    /\ pc = "loading"
    /\ next <= Len(staged_extensions)
    /\ LET staged_extension == staged_extensions[next]
           found == LoadConflictNew(staged_extension, loaded_extensions)
       IN /\ ~found.some
          /\ loaded_extensions' = found.loaded_extensions
          /\ \E ok \in BOOLEAN :
                /\ db' = IF ok THEN DbLoad(db, staged_extension) ELSE db
                /\ pc' = AfterAwait(ok)
                /\ result' = IF pc' = "failed" THEN "Err" ELSE result
                /\ decisions' = Append(decisions,
                                       Decision(staged_extension, found, "load", ok))
    /\ next' = next + 1
    /\ UNCHANGED <<files, staged_extensions, load_override, snapshot, conflicts>>

\* One iteration with a conflict that is reloaded: db.reload_extension(..).await?
ReloadExtension ==
    /\ pc = "loading"
    /\ next <= Len(staged_extensions)
    /\ LET staged_extension == staged_extensions[next]
           found == LoadConflictNew(staged_extension, loaded_extensions)
       IN /\ found.some
          /\ ReloadCondition(load_override, found.conflict)
          /\ loaded_extensions' = found.loaded_extensions
          /\ \E ok \in BOOLEAN :
                /\ db' = IF ok THEN DbReload(db, staged_extension) ELSE db
                /\ pc' = AfterAwait(ok)
                /\ result' = IF pc' = "failed" THEN "Err" ELSE result
                /\ conflicts' = IF pc' = "failed"
                                THEN conflicts
                                ELSE PushConflict(conflicts, found.conflict)
                /\ decisions' = Append(decisions,
                                       Decision(staged_extension, found, "reload", ok))
    /\ next' = next + 1
    /\ UNCHANGED <<files, staged_extensions, load_override, snapshot>>

\* One iteration with a conflict that is not reloaded.
SkipExtension ==
    /\ pc = "loading"
    /\ next <= Len(staged_extensions)
    /\ LET staged_extension == staged_extensions[next]
           found == LoadConflictNew(staged_extension, loaded_extensions)
       IN /\ found.some
          /\ ~ReloadCondition(load_override, found.conflict)
          /\ loaded_extensions' = found.loaded_extensions
          /\ conflicts' = PushConflict(conflicts, found.conflict)
          /\ decisions' = Append(decisions,
                                 Decision(staged_extension, found, "skip", TRUE))
    /\ next' = next + 1
    /\ UNCHANGED <<pc, files, staged_extensions, load_override, db, snapshot, result>>

\* The loop is exhausted: Ok(conflicts).
ReturnConflicts ==
    /\ pc = "loading"
    /\ next > Len(staged_extensions)
    /\ pc' = "done"
    /\ result' = "Ok"
    /\ UNCHANGED <<files, staged_extensions, load_override, db, snapshot,
                   loaded_extensions, conflicts, next, decisions>>

Next ==
    \/ StageExtension
    \/ StageExtensionError
    \/ CallLoadExtensions
    \/ ListExtensions
    \/ ListExtensionsError
    \/ LoadExtension
    \/ ReloadExtension
    \/ SkipExtension
    \/ ReturnConflicts

Spec == Init /\ [][Next]_vars

(* ------------------------------------------------------------------ *)
(* Properties                                                         *)
(* ------------------------------------------------------------------ *)

Last(s) == s[Len(s)]

InSnapshot(extension) ==
    \E i \in 1..Len(snapshot) : snapshot[i].id = extension.id

SnapshotEntry(extension) ==
    snapshot[CHOOSE i \in 1..Len(snapshot) : snapshot[i].id = extension.id]

Committed(extension) == \E i \in 1..Len(db) : db[i] = extension

\* The entries of a history whose id does not occur earlier in it, in order.
RECURSIVE KeepFirst(_)
KeepFirst(h) ==
    IF h = <<>>
    THEN <<>>
    ELSE LET front == SubSeq(h, 1, Len(h) - 1)
             x == h[Len(h)]
         IN IF \E j \in 1..Len(front) : front[j].id = x.id
            THEN KeepFirst(front)
            ELSE Append(KeepFirst(front), x)

\* C1: with the override off, a staged extension whose conflict carries a
\* version change is skipped (never reloaded), upgrade or downgrade alike.
C1_NoReloadWithoutOverride ==
    \A k \in 1..Len(decisions) :
        (/\ decisions[k].some
         /\ decisions[k].conflict.version_change.some
         /\ ~load_override)
        => decisions[k].action = "skip"

\* C2: with the override on, a staged extension whose conflict carries a
\* version change is reloaded iff its version is strictly higher than the
\* loaded one; a downgrade is skipped.
C2_ReloadIffUpgradeUnderOverride ==
    \A k \in 1..Len(decisions) :
        (/\ decisions[k].some
         /\ decisions[k].conflict.version_change.some
         /\ load_override)
        => /\ decisions[k].action = "reload"
              <=> VersionLess(SnapshotEntry(decisions[k].staged).version,
                              decisions[k].staged.version)
           /\ decisions[k].action /= "reload" => decisions[k].action = "skip"

\* C3: a staged extension whose conflict carries no version change is
\* skipped (never reloaded), whatever the override flag.
C3_NoVersionChangeSkips ==
    \A k \in 1..Len(decisions) :
        (/\ decisions[k].some
         /\ ~decisions[k].conflict.version_change.some)
        => decisions[k].action = "skip"

\* C4: with unique staged ids and unique loaded ids, a staged extension is
\* loaded iff no entry of the snapshot has its id; so load is never issued
\* for a committed id, reload never for an id absent from the snapshot, and
\* every staged extension gets one decision only.
C4_LoadIffAbsent ==
    (UniqueIds(staged_extensions) /\ UniqueIds(snapshot))
    => /\ Len(decisions) <= Len(staged_extensions)
       /\ UniqueIds(db)
       /\ \A k \in 1..Len(decisions) :
             /\ decisions[k].staged = staged_extensions[k]
             /\ decisions[k].action = "load" <=> ~InSnapshot(decisions[k].staged)
             /\ decisions[k].action = "reload" => InSnapshot(decisions[k].staged)
             /\ decisions[k].action = "load"
                => \A j \in 1..(k - 1) :
                      decisions[j].staged.id /= decisions[k].staged.id

C4_Witness ==
    /\ pc = "done"
    /\ \E j, k \in 1..Len(decisions) :
          /\ decisions[j].action = "load" /\ decisions[j].ok
          /\ decisions[k].action = "reload" /\ decisions[k].ok
          /\ j < k

\* C5: a pass that completes returns one Conflict per staged extension whose
\* id matched a loaded one, skipped ones included, in staged order.
C5_ReportOrdered ==
    pc = "done"
    => /\ result = "Ok"
       /\ LET hit == SelectSeq(staged_extensions, InSnapshot)
          IN /\ Len(conflicts) = Len(hit)
             /\ \A k \in 1..Len(hit) : conflicts[k].id = hit[k].id

C5_Witness ==
    /\ pc = "done"
    /\ Len(staged_extensions) = 3
    /\ Len(conflicts) = 2
    /\ conflicts[1].id = snapshot[2].id
    /\ \E j, k \in 1..Len(decisions) :
          decisions[j].action = "skip" /\ decisions[k].action = "reload"

\* C6: a failed load or reload ends the pass with the error: it is the last
\* storage call, no report is returned, and what succeeded before it stays
\* committed.
C6_FailFast ==
    \A k \in 1..Len(decisions) :
        /\ ~decisions[k].ok
           => /\ k = Len(decisions)
              /\ pc = "failed"
              /\ result = "Err"
        /\ (decisions[k].ok /\ decisions[k].action /= "skip")
           => Committed(decisions[k].staged)

C6_Witness ==
    /\ pc = "failed"
    /\ Len(staged_extensions) = 3
    /\ Len(decisions) = 2
    /\ decisions[1].action = "load" /\ decisions[1].ok
    /\ decisions[2].action = "reload" /\ ~decisions[2].ok

\* C7: after any sequence of stage operations the staged set has no two
\* extensions of one id and holds, in order, the first extension staged
\* under each id.
C7_StagedFirstWins ==
    pc = "staging"
    => /\ UniqueIds(staged_extensions)
       /\ staged_extensions = KeepFirst(files)

C7_Witness ==
    /\ pc = "staging"
    /\ Len(files) = 3
    /\ files[2].id = files[1].id
    /\ files[2] /= files[1]
    /\ files[3].id /= files[1].id
    /\ staged_extensions = <<files[1], files[3]>>

\* C8: the Conflict of a staged and a loaded metadata of one id has a name
\* change iff the display names differ, and a version change iff the names
\* are equal and the versions differ.
C8_ConflictClassification ==
    \A k \in 1..Len(decisions) :
        decisions[k].some
        => LET staged == decisions[k].staged
               loaded == SnapshotEntry(staged)
           IN /\ InSnapshot(staged)
              /\ decisions[k].conflict.name_change.some
                 <=> loaded.display_name /= staged.display_name
              /\ decisions[k].conflict.version_change.some
                 <=> (/\ loaded.display_name = staged.display_name
                      /\ loaded.version /= staged.version)

C8_Witness ==
    \E k \in 1..Len(decisions) :
        /\ decisions[k].some
        /\ decisions[k].loaded.display_name /= decisions[k].staged.display_name
        /\ decisions[k].loaded.version /= decisions[k].staged.version
        /\ decisions[k].conflict.name_change.some
        /\ ~decisions[k].conflict.version_change.some

\* C9: the diff of a loaded and a staged metadata of one id reports the
\* version order from the staged side: update iff the names are equal and
\* staged > loaded, downgrade iff the names are equal and staged < loaded.
C9_DiffFromStagedSide ==
    \A k \in 1..Len(decisions) :
        decisions[k].some
        => LET staged == decisions[k].staged
               loaded == decisions[k].loaded
               same == loaded.display_name = staged.display_name
           IN /\ is_update(decisions[k].diff)
                 <=> (same /\ VersionLess(loaded.version, staged.version))
              /\ is_downgrade(decisions[k].diff)
                 <=> (same /\ VersionLess(staged.version, loaded.version))

\* C10: a classifier call that finds a conflict removes from the working
\* loaded vector exactly the first entry of the staged id and leaves the
\* rest in order; one that finds none removes nothing; no loaded entry is
\* matched twice in a pass.
C10_Step ==
    Len(decisions') = Len(decisions) + 1
    => LET d == Last(decisions')
           hits == {i \in 1..Len(loaded_extensions) :
                       loaded_extensions[i].id = d.staged.id}
       IN IF hits = {}
          THEN ~d.some /\ loaded_extensions' = loaded_extensions
          ELSE LET i == CHOOSE h \in hits : \A g \in hits : h <= g
               IN /\ d.some
                  /\ d.loaded = loaded_extensions[i]
                  /\ loaded_extensions'
                       = SubSeq(loaded_extensions, 1, i - 1)
                         \o SubSeq(loaded_extensions, i + 1, Len(loaded_extensions))

C10_NoRematch ==
    \A j, k \in 1..Len(decisions) :
        (j /= k /\ decisions[j].some /\ decisions[k].some)
        => decisions[j].loaded.id /= decisions[k].loaded.id

C10_RemoveOnMatch == [](C10_NoRematch) /\ [][C10_Step]_vars

C10_Witness ==
    /\ Len(snapshot) = 2
    /\ Len(decisions) = 2
    /\ ~decisions[1].some
    /\ decisions[2].some
    /\ decisions[2].loaded = snapshot[2]
    /\ loaded_extensions = <<snapshot[1]>>

====
